---- MODULE Spec2Model ----
(***************************************************************************)
(* Model of backend/routes/collections.py: the in-memory operation         *)
(* registry (operations_store), the two dispatch handlers, the background  *)
(* task that copies companies into a target collection, and the status     *)
(* poll.                                                                   *)
(*                                                                         *)
(* The association table lives in a database shared by every worker       *)
(* session, and the poll handler is a plain "def" that the framework runs  *)
(* on a thread pool.  The background task is therefore modelled one        *)
(* registry write or one store call per step, and the steps of different   *)
(* tasks and of the handlers interleave freely: a row a task found missing *)
(* in its filter query may be there when it commits (lines 135-139).       *)
(***************************************************************************)
EXTENDS Integers, Sequences, FiniteSets, TLC

(* ---------------------------- bounds ----------------------------------- *)
MaxOps == 2          \* operations dispatched in one behaviour
NumCompanies == 3    \* company ids are 1..NumCompanies
MaxLen == 2          \* longest company_ids list sent to add-to

Companies == 1..NumCompanies
Collections == {"c1", "c2"}               \* rows of CompanyCollection
CollectionIds == Collections \cup {"cx"}  \* "cx" resolves to no collection
OpIds == 1..MaxOps
PollIds == 0..MaxOps                      \* 0 is never registered

NoneVal == "None"
DuplicateError == "uq_company_collection"   \* str(e) of a violated unique constraint
FatalError == "db error"

VARIABLES
    assoc,             \* CompanyCollectionAssociation: set of <<company_id, collection_id>>
    operations_store,  \* operation id -> [status, progress, total, error_message]
    tasks,             \* operation id -> the background task's arguments, locals and position
    response           \* what the step just taken returned to its caller

vars == <<assoc, operations_store, tasks, response>>

(* ---------------------------- helpers ---------------------------------- *)
Range(s) == {s[k] : k \in 1..Len(s)}

RequestLists == UNION {[1..n -> Companies] : n \in 0..MaxLen}

\* lines 225-229: the company ids of the rows of collection coll.  The query has
\* no ORDER BY; the model takes the rows in id order.  Other orders of a request
\* list reach the task through add-to.
source_company_ids(coll) ==
    LET S == {c \in Companies : <<c, coll>> \in assoc}
    IN CHOOSE s \in [1..Cardinality(S) -> S] :
           \A a, b \in 1..Cardinality(S) : a < b => s[a] < s[b]

\* company ids among ids that have an association row in collection coll
existing_ids(ids, coll) == {c \in Range(ids) : <<c, coll>> \in assoc}

members_of(coll) == {c \in Companies : <<c, coll>> \in assoc}

\* the filter dropped: every requested id is kept
companies_to_add_unfiltered(ids, existing) == ids

\* the first id to add lost to a slice that starts one too far
companies_to_add_skips_first(ids, existing) ==
    LET keep(c) == c \notin existing
        kept == SelectSeq(ids, keep)
    IN IF kept = <<>> THEN kept ELSE Tail(kept)

\* line 119: [cid for cid in company_ids if cid not in existing_company_ids]
companies_to_add_of(ids, existing) ==
    LET keep(c) == c \notin existing IN SelectSeq(ids, keep)

\* line 108: the total before the filter
requested_total(ids) == Len(ids)

\* the total left at the requested count
revised_total_requested(ids, to_add) == Len(ids)

\* line 121: the revised total
revised_total(ids, to_add) == Len(to_add)

\* the index taken as already one-based
progress_after_one_based(i) == i + 2

\* the enumerate index written as it is
progress_after_zero_based(i) == i

\* line 133: the progress written after the insertion at enumerate index i
progress_after(i) == i + 1

\* line 179: the request passes when the set of found ids is as long as the list
all_found(ids, valid) == Cardinality(valid) = Len(ids)

\* the entry registered with a total of zero
new_operation_zero_total(total) ==
    [status |-> "pending", progress |-> 0, total |-> 0, error_message |-> NoneVal]

\* lines 183-189 and 232-238
new_operation(total) ==
    [status |-> "pending", progress |-> 0, total |-> total, error_message |-> NoneVal]

\* the task as handed to background_tasks.add_task, with a fresh session
new_task(via, ids, src, tgt) ==
    [pc |-> "l107", via |-> via, company_ids |-> ids,
     source_collection_id |-> src, target_collection_id |-> tgt,
     existing_company_ids |-> {}, companies_to_add |-> <<>>, i |-> 0,
     db |-> "open", e |-> NoneVal,
     \* history: rows this task committed; operations already completed when it
     \* filtered; the members of the target when it took its first step
     inserted |-> 0, completed_before |-> {}, target_at_start |-> {}]

NoResponse ==
    [call |-> "none", code |-> 0, operation_id |-> 0, source |-> "c1", target |-> "c1",
     company_ids |-> <<>>, body |-> NoneVal]

Reply(call, code, op, src, tgt, ids, body) ==
    [call |-> call, code |-> code, operation_id |-> op, source |-> src, target |-> tgt,
     company_ids |-> ids, body |-> body]

\* uuid.uuid4(): an identifier no earlier operation has
fresh_id == Cardinality(DOMAIN operations_store) + 1

Registered == DOMAIN operations_store

(* ---------------------------- initial state ---------------------------- *)
\* the database before the first request: collection c1 holds every company,
\* collection c2 is empty
Init ==
    /\ assoc = Companies \X {"c1"}
    /\ operations_store = <<>>
    /\ tasks = <<>>
    /\ response = NoResponse

(* ---------------------------- dispatch --------------------------------- *)
Register(via, ids, src, tgt) ==
    /\ operations_store' = (fresh_id :> new_operation(Len(ids))) @@ operations_store
    /\ tasks' = (fresh_id :> new_task(via, ids, src, tgt)) @@ tasks
    /\ response' = Reply(via, 200, fresh_id, src, tgt, ids, NoneVal)
    /\ UNCHANGED assoc

\* the HTTPException raised; the 404 is raised before the id list is read
Reject(via, code, ids, src, tgt) ==
    /\ response' = Reply(via, code, 0, src, tgt, ids, NoneVal)
    /\ UNCHANGED <<assoc, operations_store, tasks>>

\* the operation registered and its task queued before the membership check
add_companies_to_collection_registers_first(src, tgt, ids) ==
    /\ Cardinality(Registered) < MaxOps
    /\ IF src \notin Collections \/ tgt \notin Collections
       THEN Reject("add-to", 404, <<>>, src, tgt)
       ELSE /\ operations_store' = (fresh_id :> new_operation(Len(ids))) @@ operations_store
            /\ tasks' = (fresh_id :> new_task("add-to", ids, src, tgt)) @@ tasks
            /\ UNCHANGED assoc
            /\ response' = IF ids # <<>> /\ ~all_found(ids, existing_ids(ids, src))
                           THEN Reply("add-to", 400, 0, src, tgt, ids, NoneVal)
                           ELSE Reply("add-to", 200, fresh_id, src, tgt, ids, NoneVal)

\* POST /{source_collection_id}/add-to/{target_collection_id}
add_companies_to_collection(src, tgt, ids) ==
    /\ Cardinality(Registered) < MaxOps
    /\ IF src \notin Collections \/ tgt \notin Collections
       THEN Reject("add-to", 404, <<>>, src, tgt)
       ELSE IF ids # <<>> /\ ~all_found(ids, existing_ids(ids, src))
            THEN Reject("add-to", 400, ids, src, tgt)
            ELSE Register("add-to", ids, src, tgt)

\* POST /{source_collection_id}/add-all-to/{target_collection_id}
add_all_companies_to_collection(src, tgt) ==
    /\ Cardinality(Registered) < MaxOps
    /\ IF src \notin Collections \/ tgt \notin Collections
       THEN Reject("add-all-to", 404, <<>>, src, tgt)
       ELSE Register("add-all-to", source_company_ids(src), src, tgt)

(* ---------------------------- poll ------------------------------------- *)
\* the lookup made without the membership test: the KeyError becomes a 500
get_operation_status_unchecked(id) ==
    /\ response' = IF id \notin Registered
                   THEN Reply("status", 500, id, "c1", "c1", <<>>, NoneVal)
                   ELSE Reply("status", 200, id, "c1", "c1", <<>>, operations_store[id])
    /\ UNCHANGED <<assoc, operations_store, tasks>>

\* GET /operations/{operation_id}
get_operation_status(id) ==
    /\ response' = IF id \notin Registered
                   THEN Reply("status", 404, id, "c1", "c1", <<>>, NoneVal)
                   ELSE Reply("status", 200, id, "c1", "c1", <<>>, operations_store[id])
    /\ UNCHANGED <<assoc, operations_store, tasks>>

(* ---------------------------- background task -------------------------- *)
SetOp(o, field, val) ==
    operations_store' = [operations_store EXCEPT ![o] = [@ EXCEPT ![field] = val]]

\* lines 107-108: status, then total reset to the requested count (the value
\* the handler registered, so the two writes show a poll one change)
TaskMarkInProgress(o) ==
    /\ tasks[o].pc = "l107"
    /\ operations_store' = [operations_store EXCEPT
           ![o] = [@ EXCEPT !.status = "in_progress",
                            !.total = requested_total(tasks[o].company_ids)]]
    /\ tasks' = [tasks EXCEPT ![o].pc = "l111",
                              ![o].target_at_start = members_of(tasks[o].target_collection_id)]
    /\ UNCHANGED assoc

\* lines 111-119, the query answers
TaskFilter(o) ==
    /\ tasks[o].pc = "l111"
    /\ LET existing == existing_ids(tasks[o].company_ids, tasks[o].target_collection_id)
       IN tasks' = [tasks EXCEPT ![o].pc = "l121",
                                 ![o].existing_company_ids = existing,
                                 ![o].completed_before =
                                     {a \in Registered : operations_store[a].status = "completed"},
                                 ![o].companies_to_add =
                                     companies_to_add_of(tasks[o].company_ids, existing)]
    /\ UNCHANGED <<assoc, operations_store>>

\* lines 111-116, the query raises
TaskFilterFails(o) ==
    /\ tasks[o].pc = "l111"
    /\ tasks' = [tasks EXCEPT ![o].pc = "l144", ![o].e = FatalError]
    /\ UNCHANGED <<assoc, operations_store>>

\* line 121
TaskSetRevisedTotal(o) ==
    /\ tasks[o].pc = "l121"
    /\ SetOp(o, "total", revised_total(tasks[o].company_ids, tasks[o].companies_to_add))
    /\ tasks' = [tasks EXCEPT ![o].pc = "l124"]
    /\ UNCHANGED assoc

Current(o) == tasks[o].companies_to_add[tasks[o].i + 1]
InLoop(o) == tasks[o].pc = "l124" /\ tasks[o].i < Len(tasks[o].companies_to_add)

\* lines 126-133, the commit succeeds: the row is stored and the progress
\* write follows it with no store call in between
TaskInsert(o) ==
    /\ InLoop(o)
    /\ <<Current(o), tasks[o].target_collection_id>> \notin assoc
    /\ assoc' = assoc \cup {<<Current(o), tasks[o].target_collection_id>>}
    /\ SetOp(o, "progress", progress_after(tasks[o].i))
    /\ tasks' = [tasks EXCEPT ![o].i = @ + 1, ![o].inserted = @ + 1]

\* the constraint name not found in the message: the duplicate is raised again
TaskSkipDuplicate_raises(o) ==
    /\ InLoop(o)
    /\ <<Current(o), tasks[o].target_collection_id>> \in assoc
    /\ tasks' = [tasks EXCEPT ![o].pc = "l144", ![o].e = DuplicateError]
    /\ UNCHANGED <<assoc, operations_store>>

\* the duplicate skipped, its message written to the registry
TaskSkipDuplicate_records_error(o) ==
    /\ InLoop(o)
    /\ <<Current(o), tasks[o].target_collection_id>> \in assoc
    /\ SetOp(o, "error_message", DuplicateError)
    /\ tasks' = [tasks EXCEPT ![o].i = @ + 1, ![o].e = DuplicateError]
    /\ UNCHANGED assoc

\* lines 130-139, the commit violates uq_company_collection: rollback, next member
TaskSkipDuplicate(o) ==
    /\ InLoop(o)
    /\ <<Current(o), tasks[o].target_collection_id>> \in assoc
    /\ tasks' = [tasks EXCEPT ![o].i = @ + 1, ![o].e = DuplicateError]
    /\ UNCHANGED <<assoc, operations_store>>

\* every exception of the commit swallowed, the loop goes on
TaskInsertFails_swallowed(o) ==
    /\ InLoop(o)
    /\ tasks' = [tasks EXCEPT ![o].i = @ + 1, ![o].e = FatalError]
    /\ UNCHANGED <<assoc, operations_store>>

\* lines 130-139, any other exception: rollback, re-raise
TaskInsertFails(o) ==
    /\ InLoop(o)
    /\ tasks' = [tasks EXCEPT ![o].pc = "l144", ![o].e = FatalError]
    /\ UNCHANGED <<assoc, operations_store>>

\* line 141
TaskMarkCompleted(o) ==
    /\ tasks[o].pc = "l124"
    /\ tasks[o].i = Len(tasks[o].companies_to_add)
    /\ SetOp(o, "status", "completed")
    /\ tasks' = [tasks EXCEPT ![o].pc = "l148"]
    /\ UNCHANGED assoc

\* the exception leaves the task with no handler: straight to the finally block
TaskMarkFailed_unhandled(o) ==
    /\ tasks[o].pc = "l144"
    /\ tasks' = [tasks EXCEPT ![o].pc = "l148"]
    /\ UNCHANGED <<assoc, operations_store>>

\* the failed entry written afresh, progress back at 0
TaskMarkFailed_resets_progress(o) ==
    /\ tasks[o].pc = "l144"
    /\ operations_store' = [operations_store EXCEPT
           ![o] = [@ EXCEPT !.status = "failed", !.progress = 0]]
    /\ tasks' = [tasks EXCEPT ![o].pc = "l145"]
    /\ UNCHANGED assoc

\* line 144
TaskMarkFailed(o) ==
    /\ tasks[o].pc = "l144"
    /\ SetOp(o, "status", "failed")
    /\ tasks' = [tasks EXCEPT ![o].pc = "l145"]
    /\ UNCHANGED assoc

\* the message written together with a cleared progress
TaskWriteError_clears_progress(o) ==
    /\ tasks[o].pc = "l145"
    /\ operations_store' = [operations_store EXCEPT
           ![o] = [@ EXCEPT !.error_message = tasks[o].e, !.progress = 0]]
    /\ tasks' = [tasks EXCEPT ![o].pc = "l148"]
    /\ UNCHANGED assoc

\* the session closed in the try body only: the failure path ends without it
TaskWriteError_skips_close(o) ==
    /\ tasks[o].pc = "l145"
    /\ SetOp(o, "error_message", tasks[o].e)
    /\ tasks' = [tasks EXCEPT ![o].pc = "done"]
    /\ UNCHANGED assoc

\* lines 145-146
TaskWriteError(o) ==
    /\ tasks[o].pc = "l145"
    /\ SetOp(o, "error_message", tasks[o].e)
    /\ tasks' = [tasks EXCEPT ![o].pc = "l148"]
    /\ UNCHANGED assoc

\* the completed mark written in the finally block
TaskClose_marks_completed(o) ==
    /\ tasks[o].pc = "l148"
    /\ SetOp(o, "status", "completed")
    /\ tasks' = [tasks EXCEPT ![o].pc = "done", ![o].db = "closed"]
    /\ UNCHANGED assoc

\* line 148
TaskClose(o) ==
    /\ tasks[o].pc = "l148"
    /\ tasks' = [tasks EXCEPT ![o].pc = "done", ![o].db = "closed"]
    /\ UNCHANGED <<assoc, operations_store>>

add_companies_to_collection_task(o) ==
    /\ o \in Registered
    /\ response' = NoResponse
    /\ \/ TaskMarkInProgress(o)
       \/ TaskFilter(o)
       \/ TaskFilterFails(o)
       \/ TaskSetRevisedTotal(o)
       \/ TaskInsert(o)
       \/ TaskSkipDuplicate(o)
       \/ TaskInsertFails(o)
       \/ TaskMarkCompleted(o)
       \/ TaskMarkFailed(o)
       \/ TaskWriteError(o)
       \/ TaskClose(o)

(* ---------------------------- specification ---------------------------- *)
Next ==
    \/ \E src, tgt \in CollectionIds : \E ids \in RequestLists :
          add_companies_to_collection(src, tgt, ids)
    \/ \E src, tgt \in CollectionIds : add_all_companies_to_collection(src, tgt)
    \/ \E id \in PollIds : get_operation_status(id)
    \/ \E o \in OpIds : add_companies_to_collection_task(o)

Spec == Init /\ [][Next]_vars

\* The poll writes response alone, which no guard of the task reads: the fair
\* specification leaves it out and lets every dispatched task keep running.
NextNoPoll ==
    \/ \E src, tgt \in CollectionIds : \E ids \in RequestLists :
          add_companies_to_collection(src, tgt, ids)
    \/ \E src, tgt \in CollectionIds : add_all_companies_to_collection(src, tgt)
    \/ \E o \in OpIds : add_companies_to_collection_task(o)

FairSpec ==
    /\ Init
    /\ [][NextNoPoll]_vars
    /\ \A o \in OpIds : WF_vars(add_companies_to_collection_task(o))

TypeOK ==
    /\ assoc \subseteq Companies \X Collections
    /\ Registered \subseteq OpIds
    /\ DOMAIN tasks = Registered

Terminal(o) == operations_store[o].status \in {"completed", "failed"}
Done(o) == tasks[o].pc = "done"
Dispatches == {"add-to", "add-all-to"}

(* ---------------------------- properties ------------------------------- *)

\* C1: in every reachable state every registered operation has
\* progress <= total.
C1_ProgressAtMostTotal ==
    \A o \in Registered : operations_store[o].progress <= operations_store[o].total

\* an operation that has written progress up to a revised total of two or more
C1_Witness ==
    \E o \in Registered :
        /\ operations_store[o].progress = operations_store[o].total
        /\ operations_store[o].progress >= 2
        /\ tasks[o].existing_company_ids # {}

\* C2: in every reachable state the progress of an operation is the number of
\* rows its own task has committed; a member skipped as a duplicate never
\* counts.
C2_ProgressIsInsertCount ==
    \A o \in Registered : operations_store[o].progress = tasks[o].inserted

\* C3: the status of an operation only moves pending -> in_progress ->
\* completed or failed; no step moves it back and a completed or failed
\* status is never changed.
StatusMoves ==
    {<<"pending", "in_progress">>, <<"in_progress", "completed">>, <<"in_progress", "failed">>}

C3_StatusForwardOnly ==
    [][\A o \in Registered :
          \/ operations_store'[o].status = operations_store[o].status
          \/ <<operations_store[o].status, operations_store'[o].status>> \in StatusMoves]_vars

\* one operation failed and finished while another completed
C3_Witness ==
    \E a, b \in Registered :
        /\ operations_store[a].status = "failed" /\ Done(a)
        /\ operations_store[b].status = "completed" /\ Done(b)

\* two add-to dispatches with the same source, target and member set
SameSelection(a, b) ==
    /\ tasks[a].via = "add-to" /\ tasks[b].via = "add-to"
    /\ tasks[a].source_collection_id = tasks[b].source_collection_id
    /\ tasks[a].target_collection_id = tasks[b].target_collection_id
    /\ Range(tasks[a].company_ids) = Range(tasks[b].company_ids)

\* C4 as stated: of two add-to dispatches with the same source, target and
\* member set and no persistence failure, whatever the interleaving, the first
\* inserts every member of its working set and the second ends completed with
\* total = 0 and progress = 0.
C4_SecondAlwaysEmpty ==
    \A a, b \in Registered :
        (/\ a < b /\ SameSelection(a, b)
         /\ Done(a) /\ Done(b)
         /\ operations_store[a].status # "failed"
         /\ operations_store[b].status # "failed")
        => /\ tasks[a].inserted = Len(tasks[a].companies_to_add)
           /\ operations_store[b].status = "completed"
           /\ operations_store[b].total = 0
           /\ operations_store[b].progress = 0

\* C4 amended: of two add-to dispatches with the same source, target and
\* member set, the one whose task runs its filter query after the other has
\* reached completed ends, if it meets no persistence failure, completed with
\* total = 0 and progress = 0, and every member is then in the target.
C4_SecondAfterFirstIsEmpty ==
    \A a, b \in Registered :
        (/\ a # b /\ SameSelection(a, b)
         /\ a \in tasks[b].completed_before
         /\ Done(b)
         /\ operations_store[b].status # "failed")
        => /\ operations_store[b].status = "completed"
           /\ operations_store[b].total = 0
           /\ operations_store[b].progress = 0
           /\ Range(tasks[b].company_ids) \subseteq members_of(tasks[b].target_collection_id)

\* the second of two equal add-to requests into c2 finished after the first,
\* which inserted both members
C4_Witness ==
    \E a, b \in Registered :
        /\ a # b /\ SameSelection(a, b)
        /\ a \in tasks[b].completed_before
        /\ Done(b) /\ operations_store[b].status = "completed"
        /\ tasks[a].inserted = 2

\* C5: an operation that ends failed has a non-empty error_message and a
\* progress equal to the number of rows its task committed before the failing
\* member, also when earlier members were skipped as duplicates.
C5_FailedKeepsInsertCount ==
    \A o \in Registered :
        (Done(o) /\ operations_store[o].status = "failed")
        => /\ operations_store[o].error_message # NoneVal
           /\ operations_store[o].progress = tasks[o].inserted

\* C6: once progress is above 0 the total is N - M, the number of requested ids
\* less those found in the target by the filter query, and the total is never
\* written again once the task has reached the insertion loop.
C6_TotalSettled ==
    /\ [](\A o \in Registered :
             operations_store[o].progress > 0 =>
                 operations_store[o].total =
                     Len(tasks[o].company_ids) - Cardinality(tasks[o].existing_company_ids))
    /\ [][\A o \in Registered :
             tasks[o].pc \notin {"l107", "l111", "l121"} =>
                 operations_store'[o].total = operations_store[o].total]_vars

\* three ids requested, one already in the target, progress under way
C6_Witness ==
    \E o \in Registered :
        /\ operations_store[o].progress > 0
        /\ Len(tasks[o].company_ids) = 3
        /\ Cardinality(tasks[o].existing_company_ids) = 1
        /\ operations_store[o].total = 2

\* C7: with both collections existing, add-to answers InvalidMembership (400)
\* exactly when some requested id is not a member of the source, for every
\* request list; otherwise it registers an operation and dispatches its task.
C7_RejectsExactlyNonMembers ==
    (/\ response.call = "add-to"
     /\ response.source \in Collections
     /\ response.target \in Collections)
    => /\ response.code = 400 <=>
              \E c \in Range(response.company_ids) : <<c, response.source>> \notin assoc
       /\ response.code # 400 =>
              /\ response.code = 200
              /\ response.operation_id \in Registered
              /\ tasks[response.operation_id].pc = "l107"

\* C8: a dispatch call answered 404 or 400 leaves the registry, the tasks and
\* the association table as they were; a call naming a missing collection is
\* answered 404.
C8_RejectedDispatchChangesNothing ==
    [][response'.call \in Dispatches =>
          /\ response'.code \in {400, 404} => UNCHANGED <<assoc, operations_store, tasks>>
          /\ (response'.source \notin Collections \/ response'.target \notin Collections)
                => response'.code = 404]_vars

\* a 400 and a 404 answer given while an operation is registered
C8_Witness ==
    /\ response.call \in Dispatches
    /\ response.code = 400
    /\ Registered # {}
    /\ \E o \in Registered : operations_store[o].status = "in_progress"

\* C9: every dispatched operation eventually has status completed or failed.
C9_EventuallyTerminal ==
    \A o \in OpIds : (o \in Registered) ~> (o \in Registered /\ Terminal(o))

\* an operation that completed after skipping a duplicate
C9_Witness ==
    \E o \in Registered :
        /\ Done(o) /\ operations_store[o].status = "completed"
        /\ tasks[o].inserted < Len(tasks[o].companies_to_add)

\* C10: in the state right after a valid dispatch call the returned id is
\* registered with status pending, progress 0, no error_message and total the
\* length of the id list (for add-all-to: the number of members of the source);
\* no step removes an entry from the registry.
C10_VisibleAfterDispatch ==
    /\ []((response.call \in Dispatches /\ response.code = 200) =>
            /\ response.operation_id \in Registered
            /\ operations_store[response.operation_id] =
                   [status |-> "pending", progress |-> 0,
                    total |-> Len(response.company_ids), error_message |-> NoneVal]
            /\ response.call = "add-all-to" =>
                   operations_store[response.operation_id].total =
                       Cardinality(members_of(response.source)))
    /\ [][\A o \in Registered :
             o \in DOMAIN operations_store' /\ o \in DOMAIN tasks']_vars

\* the second operation, an add-all-to of three members, has just been registered
C10_Witness ==
    /\ response.call = "add-all-to" /\ response.code = 200
    /\ response.operation_id = 2
    /\ operations_store[2].total = 3

\* no other task has added a row to the target of o since o took its first step
Undisturbed(o) ==
    Cardinality(members_of(tasks[o].target_collection_id)) =
        Cardinality(tasks[o].target_at_start) + tasks[o].inserted

\* C11: an operation that completed with no other task adding to its target
\* since it started has total = the number of requested ids that were not in
\* the target at its start, progress = total, and the target holds its initial
\* members and the requested ids.
C11_UndisturbedRunAddsAll ==
    \A o \in Registered :
        (operations_store[o].status = "completed" /\ Undisturbed(o))
        => /\ operations_store[o].total =
                  Cardinality(Range(tasks[o].company_ids) \ tasks[o].target_at_start)
           /\ operations_store[o].progress = operations_store[o].total
           /\ members_of(tasks[o].target_collection_id) =
                  tasks[o].target_at_start \cup Range(tasks[o].company_ids)

\* S = {1,2,3}, T = {2}: add-all-to ends with total 2, progress 2, T = {1,2,3}
C11_Witness ==
    \E o \in Registered :
        /\ operations_store[o].status = "completed" /\ Undisturbed(o)
        /\ tasks[o].via = "add-all-to"
        /\ tasks[o].target_at_start = {2}
        /\ operations_store[o].total = 2 /\ operations_store[o].progress = 2
        /\ members_of(tasks[o].target_collection_id) = {1, 2, 3}

\* C12: no step removes an association row, and the step that marks an
\* operation failed, like every later step of its task, leaves its progress
\* and the association table as they were.
C12_FailureKeepsCommittedWork ==
    [][/\ assoc \subseteq assoc'
       /\ \A o \in Registered :
             operations_store'[o].status = "failed" =>
                 /\ operations_store'[o].progress = operations_store[o].progress
                 /\ (tasks'[o] # tasks[o] => assoc' = assoc)]_vars

\* an operation that failed after two committed rows, still at progress 2
C12_Witness ==
    \E o \in Registered :
        /\ operations_store[o].status = "failed" /\ Done(o)
        /\ tasks[o].inserted = 2 /\ operations_store[o].progress = 2
        /\ Cardinality(members_of(tasks[o].target_collection_id)) >= 2

\* C13: a poll of an id that is not registered is answered 404, a poll of a
\* registered id is answered 200 with that operation's current status,
\* progress, total and error_message; no poll changes the registry.
C13_PollReadsRegistry ==
    /\ [](response.call = "status" =>
            IF response.operation_id \in Registered
            THEN /\ response.code = 200
                 /\ response.body = operations_store[response.operation_id]
            ELSE response.code = 404)
    /\ [][response'.call = "status" => UNCHANGED <<assoc, operations_store, tasks>>]_vars

\* an unknown id polled while an operation runs, and a running operation polled
C13_Witness ==
    /\ response.call = "status" /\ response.code = 404
    /\ \E o \in Registered : operations_store[o].progress = 1

\* C14: a step in which the commit raises the duplicate-constraint error leaves
\* the operation's registry entry unchanged and moves the task to the next
\* member; no operation is failed by a duplicate.
C14_DuplicateIsSkipped ==
    /\ [][\A o \in Registered :
             (/\ InLoop(o)
              /\ tasks'[o] # tasks[o]
              /\ tasks'[o].e = DuplicateError
              /\ tasks'[o].inserted = tasks[o].inserted)
             => /\ operations_store'[o] = operations_store[o]
                /\ tasks'[o].pc = "l124"
                /\ tasks'[o].i = tasks[o].i + 1]_vars
    /\ [](\A o \in Registered :
             (tasks[o].pc \in {"l144", "l145"} \/ operations_store[o].status = "failed")
             => tasks[o].e = FatalError)

\* a task that skipped a duplicate, then inserted the next member
C14_Witness ==
    \E o \in Registered :
        /\ tasks[o].e = DuplicateError
        /\ tasks[o].i = 2 /\ tasks[o].inserted = 1
        /\ operations_store[o].status = "in_progress"

\* C15: every task closes its session; it is closed only after the terminal
\* status is written, and a task whose session is closed takes no further step.
C15_SessionReleased ==
    /\ \A o \in OpIds :
           (o \in Registered) ~> (o \in Registered /\ tasks[o].db = "closed")
    /\ [](\A o \in Registered :
             /\ tasks[o].db = "closed" => Terminal(o)
             /\ Done(o) => tasks[o].db = "closed")
    /\ [][\A o \in Registered :
             tasks[o].db = "closed" =>
                 /\ tasks'[o] = tasks[o]
                 /\ operations_store'[o] = operations_store[o]]_vars

\* a session closed after every member was skipped, another after a failed filter
C15_Witness ==
    \E a, b \in Registered :
        /\ tasks[a].db = "closed" /\ operations_store[a].status = "completed"
        /\ tasks[a].inserted = 0 /\ Len(tasks[a].companies_to_add) > 0
        /\ tasks[b].db = "closed" /\ operations_store[b].status = "failed"

\* C16: no step lowers the progress of an operation.
C16_ProgressNeverDecreases ==
    [][\A o \in Registered :
          operations_store'[o].progress >= operations_store[o].progress]_vars

\* two operations on the same target, both with progress written
C16_Witness ==
    \E a, b \in Registered :
        /\ a # b
        /\ tasks[a].target_collection_id = tasks[b].target_collection_id
        /\ operations_store[a].progress >= 2
        /\ operations_store[b].progress >= 1

\* C17: an error_message is present only on a failed operation, and once
\* written it is never changed.
C17_ErrorOnlyWhenFailed ==
    /\ [](\A o \in Registered :
             operations_store[o].error_message # NoneVal =>
                 operations_store[o].status = "failed")
    /\ [][\A o \in Registered :
             operations_store[o].error_message # NoneVal =>
                 operations_store'[o].error_message = operations_store[o].error_message]_vars

\* a failed operation with its message, beside one that skipped a duplicate
C17_Witness ==
    \E a, b \in Registered :
        /\ operations_store[a].error_message = FatalError
        /\ tasks[b].e = DuplicateError
        /\ operations_store[b].status = "completed"

\* C18: a poll that answers status = failed also answers an error_message.
C18_PollSeesWholeFailure ==
    (response.call = "status" /\ response.code = 200
     /\ response.body.status = "failed")
    => response.body.error_message # NoneVal

\* C19: every id requested by a completed operation is a member of its target.
C19_CompletedMeansAllPresent ==
    \A o \in Registered :
        operations_store[o].status = "completed" =>
            Range(tasks[o].company_ids) \subseteq members_of(tasks[o].target_collection_id)

\* completed after a duplicate skip: the row came from the other task
C19_Witness ==
    \E o \in Registered :
        /\ operations_store[o].status = "completed"
        /\ tasks[o].inserted < Len(tasks[o].companies_to_add)
        /\ Len(tasks[o].company_ids) = 3

\* C20 as stated: a completed operation has progress = total.
C20_CompletedIsFull ==
    \A o \in Registered :
        operations_store[o].status = "completed" =>
            operations_store[o].progress = operations_store[o].total

\* C20 amended: a completed operation whose task skipped no member as a
\* duplicate has progress = total.
C20_CompletedFullWithoutSkips ==
    \A o \in Registered :
        (/\ operations_store[o].status = "completed"
         /\ tasks[o].inserted = Len(tasks[o].companies_to_add))
        => operations_store[o].progress = operations_store[o].total

\* completed at 2 of 2 while the other task added a row to the same target
C20_Witness ==
    \E a, b \in Registered :
        /\ a # b
        /\ tasks[a].target_collection_id = tasks[b].target_collection_id
        /\ operations_store[a].status = "completed"
        /\ tasks[a].inserted = 2 /\ operations_store[a].total = 2
        /\ tasks[b].inserted >= 1
====
